---------------------------- MODULE Spec2Model ----------------------------
(***************************************************************************)
(* A model of trickster's Process handle (src/src/process.rs):            *)
(*   Process::new               name lookup over the /proc directory      *)
(*   read_memory / write_memory sized transfers with process_vm_readv /   *)
(*                              process_vm_writev                         *)
(*   parse_maps                 /proc/[pid]/maps -> Vec<MemoryRegion>     *)
(*   get_memory_regions, region_find_first_by_name, get_address_region    *)
(*                                                                         *)
(* Text is modelled as sequences of one-character strings, so that the    *)
(* conversions of the code (trim_end, hexadecimal and decimal parsing,    *)
(* rfind / split_off) are computed and not assumed.                       *)
(*                                                                         *)
(* Option<T> is a sequence of length 0 (None) or 1 (Some).  A Result is   *)
(* a record [kind, val, err] with kind "Ok", "Err" or "Panic" (a failed   *)
(* unwrap() / expect() unwinds: no value is returned to the caller).      *)
(*                                                                         *)
(* Five specifications:                                                   *)
(*   SpecLocate  Process::new over the listings of /proc                  *)
(*   SpecMem     read_memory / write_memory over a small target memory    *)
(*   SpecMaps    parse_maps and the three queries over small maps files   *)
(*   SpecLine    the body of parse_maps's loop on one line, over every    *)
(*               permission field and pairs of device fields              *)
(*   SpecHandle  every operation interleaved on one handle                *)
(* The variable `last` records the last call and its answer; `lastGood`   *)
(* is a history variable.                                                  *)
(***************************************************************************)
EXTENDS Integers, Sequences, FiniteSets, TLC

VARIABLES
  procTable,       \* the entries read_dir("/proc/") yields, in enumeration order
  handle,          \* Option<[pid, name]>: the Process the caller holds
  memory_regions,  \* Process.memory_regions: Option<Vec<MemoryRegion>>
  mem,             \* the target's memory: address -> byte
  mappedLen,       \* addresses 0 .. mappedLen-1 of the target are mapped
  last,            \* the last call: operation, arguments, what it returned
  lastGood         \* history: what the most recent successful parse produced

vars == <<procTable, handle, memory_regions, mem, mappedLen, last, lastGood>>

-----------------------------------------------------------------------------
(* Bounds of the model *)

MaxEntries == 3   \* entries of the /proc directory
MemSize == 2      \* addresses of the target: 0 .. MemSize-1
MaxSize == 2      \* size_of::<T>() ranges over 0 .. MaxSize
MaxLines == 2     \* lines of the maps file

-----------------------------------------------------------------------------
(* Option and Result *)

None == << >>
Some(v) == <<v>>
IsSome(o) == Len(o) = 1
Unwrap(o) == o[1]

Ok(v) == [kind |-> "Ok", val |-> Some(v), err |-> ""]
Err(e) == [kind |-> "Err", val |-> None, err |-> e]
Panic(e) == [kind |-> "Panic", val |-> None, err |-> e]

Min(a, b) == IF a <= b THEN a ELSE b

-----------------------------------------------------------------------------
(* Characters and numbers *)

DecChars == <<"0", "1", "2", "3", "4", "5", "6", "7", "8", "9">>
HexChars == <<"0", "1", "2", "3", "4", "5", "6", "7", "8", "9",
              "a", "b", "c", "d", "e", "f">>
Whitespace == {" ", "\n", "\t"}

Range(s) == {s[i] : i \in 1..Len(s)}

\* The value of digit c in the digit sequence digits ("0" is digits[1]).
DigitVal(digits, c) == (CHOOSE i \in 1..Len(digits) : digits[i] = c) - 1

\* str::parse / from_str_radix: None unless tok is a non-empty run of digits of
\* the radix; the value otherwise.
RECURSIVE RadixVal(_, _, _)
RadixVal(digits, tok, n) ==
  IF n = 0 THEN 0
  ELSE RadixVal(digits, tok, n - 1) * Len(digits) + DigitVal(digits, tok[n])

ParseRadix(digits, tok) ==
  IF Len(tok) > 0 /\ \A i \in 1..Len(tok) : tok[i] \in Range(digits)
  THEN Some(RadixVal(digits, tok, Len(tok)))
  ELSE None

\* String::trim_end: the text without its trailing whitespace.
RECURSIVE trim_end(_)
trim_end(s) ==
  IF Len(s) > 0 /\ s[Len(s)] \in Whitespace
  THEN trim_end(SubSeq(s, 1, Len(s) - 1))
  ELSE s

-----------------------------------------------------------------------------
(* Process::new *)

\* filename_string.chars().all(char::is_numeric); the names of /proc are ASCII.
AllNumeric(fname) == \A i \in 1..Len(fname) : fname[i] \in Range(DecChars)

\* One step of the for loop over the directory entries, from entry i on.
\* An entry is [direrr, fname, comm]: direrr when read_dir yields an error for
\* it, comm the content of its comm file (None when it cannot be read).
RECURSIVE NewScan(_, _, _)
NewScan(table, process_name, i) ==
  IF i > Len(table) THEN Err("NotFound")
  ELSE LET e == table[i] IN
    IF e.direrr THEN NewScan(table, process_name, i + 1)
    ELSE IF ~AllNumeric(e.fname) THEN NewScan(table, process_name, i + 1)
    ELSE IF ~IsSome(e.comm) THEN Err("Io")
    ELSE IF trim_end(Unwrap(e.comm)) = process_name
      THEN LET p == ParseRadix(DecChars, e.fname) IN
           IF IsSome(p)
           THEN Ok([pid |-> Unwrap(p), name |-> Unwrap(e.comm), at |-> i])
           ELSE Panic("Could not parse i32 value from filename_string.")
    ELSE NewScan(table, process_name, i + 1)

\* fs::read_dir("/proc/")? and the loop.  (File names of /proc are ASCII, so
\* into_string() succeeds; pids fit an i32.)
ProcessNew(dirOk, table, process_name) ==
  IF ~dirOk THEN Err("Io") ELSE NewScan(table, process_name, 1)

\* The directory entries the model draws /proc from: an entry read_dir fails
\* on, a non-numeric entry, and numeric entries whose comm file is unreadable
\* (the process is gone) or holds a name and a newline.
NumericNames == {<<"1">>, <<"2">>, <<"3">>}
CommTexts == {None, Some(<<"a", "\n">>), Some(<<"b", "\n">>)}
Entries ==
  {[direrr |-> TRUE, fname |-> << >>, comm |-> None],
   [direrr |-> FALSE, fname |-> <<"s", "e", "l", "f">>, comm |-> None]}
  \cup {[direrr |-> FALSE, fname |-> f, comm |-> c] : f \in NumericNames, c \in CommTexts}

\* A directory holds each name once.
Tables ==
  {t \in UNION {[1..n -> Entries] : n \in 0..MaxEntries} :
     \A i, j \in 1..Len(t) :
       (i # j /\ ~t[i].direrr /\ ~t[j].direrr) => t[i].fname # t[j].fname}

ProcessNames == {<<"a">>, <<"b">>}

New(process_name, dirOk) ==
  LET r == ProcessNew(dirOk, procTable, process_name) IN
  /\ last' = [op |-> "new", process_name |-> process_name, dirOk |-> dirOk, result |-> r]
  /\ handle' = IF r.kind = "Ok"
               THEN Some([pid |-> Unwrap(r.val).pid, name |-> Unwrap(r.val).name])
               ELSE handle
  /\ memory_regions' = IF r.kind = "Ok" THEN None ELSE memory_regions
  /\ lastGood' = IF r.kind = "Ok" THEN None ELSE lastGood
  /\ UNCHANGED <<procTable, mem, mappedLen>>

InitLocate ==
  /\ procTable \in Tables
  /\ handle = None
  /\ memory_regions = None
  /\ mem = << >>
  /\ mappedLen = 0
  /\ last = [op |-> "none"]
  /\ lastGood = None

NextLocate == \E n \in ProcessNames, dirOk \in BOOLEAN : New(n, dirOk)

SpecLocate == InitLocate /\ [][NextLocate]_vars

-----------------------------------------------------------------------------
(* read_memory / write_memory *)

\* How many of the `want` bytes from `base` on lie in mapped memory before the
\* first unmapped address.
Transferable(mlen, base, want) ==
  IF base >= mlen THEN 0 ELSE Min(want, mlen - base)

\* process_vm_readv with one local and one remote segment: the byte count the
\* kernel reports (Ok), or EFAULT when a transfer of at least one byte was
\* asked for and nothing could be transferred.
process_vm_readv(mlen, localLen, base, remoteLen) ==
  LET want == Min(localLen, remoteLen)
      n == Transferable(mlen, base, want)
  IN IF want > 0 /\ n = 0 THEN Err("EFAULT") ELSE Ok(n)

\* process_vm_writev: as process_vm_readv, the other way round.
process_vm_writev(mlen, localLen, base, remoteLen) ==
  LET want == Min(localLen, remoteLen)
      n == Transferable(mlen, base, want)
  IN IF want > 0 /\ n = 0 THEN Err("EFAULT") ELSE Ok(n)

\* The target's memory after the kernel stored the first n bytes of buffer at base.
StoreBytes(m, base, buffer, n) ==
  [a \in DOMAIN m |-> IF a >= base /\ a < base + n THEN buffer[a - base + 1] ELSE m[a]]

\* Mutant of FilledBuffer: the kernel filled a copy, the caller gets the zeroed vector.
FilledBuffer_Zeroed(m, base, bytes_requested, n) ==
  [i \in 1..bytes_requested |-> 0]

\* vec![0u8; bytes_requested] after the kernel filled its first n bytes.
FilledBuffer(m, base, bytes_requested, n) ==
  [i \in 1..bytes_requested |-> IF i <= n THEN m[base + i - 1] ELSE 0]

\* Mutant of ReadResult: the byte count is not compared with the request.
ReadResult_NoCountCheck(m, address, bytes_requested, sys) ==
  IF sys.kind = "Err" THEN Err("Syscall")
  ELSE Ok(FilledBuffer(m, address, bytes_requested, Unwrap(sys.val)))

\* What read_memory::<T> returns, given the kernel's answer.
ReadResult(m, address, bytes_requested, sys) ==
  IF sys.kind = "Err" THEN Err("Syscall")
  ELSE IF Unwrap(sys.val) # bytes_requested THEN Err("PartialRead")
  ELSE Ok(FilledBuffer(m, address, bytes_requested, Unwrap(sys.val)))

\* What write_memory::<T> returns, given the kernel's answer.
WriteResult(bytes_requested, sys) ==
  IF sys.kind = "Err" THEN Err("Syscall")
  ELSE IF Unwrap(sys.val) # bytes_requested THEN Err("PartialWrite")
  ELSE Ok(<< >>)

\* The transfer read_memory::<T> asks the kernel for: the local segment is the
\* zeroed buffer of size_of::<T>() bytes, the remote one as long.
ReadRequest(address, sizeT) ==
  [base |-> address, len |-> sizeT, localLen |-> sizeT]

\* The transfer write_memory::<T> asks for: the local segment is the caller's
\* buffer, the remote one is size_of::<T>() bytes long.
WriteRequest(address, sizeT, buffer) ==
  [base |-> address, len |-> sizeT, localLen |-> Len(buffer)]

Addrs == 0..(MemSize - 1)
ByteVals == {0, 255}
Sizes == 0..MaxSize
Buffers == UNION {[1..n -> ByteVals] : n \in 0..(MaxSize + 1)}

\* History: what a read needs to know of the call it follows.
Summary(l) ==
  IF l.op = "write_memory" /\ l.result.kind = "Ok"
  THEN [op |-> "write_memory_ok", address |-> l.address, size |-> l.size,
        written |-> l.written]
  ELSE [op |-> "other"]

ReadMemory(address, sizeT) ==
  LET req == ReadRequest(address, sizeT)
      sys == process_vm_readv(mappedLen, req.localLen, req.base, req.len)
  IN /\ IsSome(handle)
     /\ last' = [op |-> "read_memory", address |-> address, size |-> sizeT,
                 requests |-> <<req>>, sys |-> sys, after |-> Summary(last),
                 result |-> ReadResult(mem, address, req.len, sys)]
     /\ UNCHANGED <<procTable, handle, memory_regions, mem, mappedLen, lastGood>>

WriteMemory(address, sizeT, buffer) ==
  LET req == WriteRequest(address, sizeT, buffer)
      sys == process_vm_writev(mappedLen, req.localLen, req.base, req.len)
      n == IF sys.kind = "Ok" THEN Unwrap(sys.val) ELSE 0
  IN /\ IsSome(handle)
     /\ mem' = StoreBytes(mem, address, buffer, n)
     /\ last' = [op |-> "write_memory", address |-> address, size |-> sizeT,
                 bufLen |-> Len(buffer), written |-> SubSeq(buffer, 1, n),
                 requests |-> <<req>>, sys |-> sys,
                 result |-> WriteResult(sizeT, sys)]
     /\ UNCHANGED <<procTable, handle, memory_regions, mappedLen, lastGood>>

\* The target process stores to its own memory while the caller is between calls.
TargetStore(address, byte) ==
  /\ address < mappedLen
  /\ mem' = [mem EXCEPT ![address] = byte]
  /\ last' = [op |-> "target_store"]
  /\ UNCHANGED <<procTable, handle, memory_regions, mappedLen, lastGood>>

TheHandle == Some([pid |-> 1, name |-> <<"a", "\n">>])

InitMem ==
  /\ procTable = << >>
  /\ handle = TheHandle
  /\ memory_regions = None
  /\ mem \in [Addrs -> ByteVals]
  /\ mappedLen \in 0..MemSize
  /\ last = [op |-> "none"]
  /\ lastGood = None

NextMem ==
  \/ \E a \in 0..MemSize, t \in Sizes : ReadMemory(a, t)
  \/ \E a \in 0..MemSize, t \in Sizes, b \in Buffers : WriteMemory(a, t, b)
  \/ \E a \in Addrs, v \in ByteVals : TargetStore(a, v)

SpecMem == InitMem /\ [][NextMem]_vars

-----------------------------------------------------------------------------
(* parse_maps *)

U8Max == 255

\* str::parse::<u8>: decimal, at most U8Max.
ParseU8(tok) ==
  LET v == ParseRadix(DecChars, tok) IN
  IF IsSome(v) /\ Unwrap(v) <= U8Max THEN v ELSE None

\* scan_fmt_some!(line, "{x}-{x} {} {x} {}:{} {} {}", [hex usize], [hex usize],
\* String, [hex usize], u8, u8, usize, String) on a line given by its fields
\* [start, end, perms, offset, dev_major, dev_minor, inode, path], each the text
\* between the separators of the format (path: None when the line ends after the
\* inode).  A {x} that meets no hexadecimal digit ends the scan: the fields after
\* it are None.  A {} takes the text up to the separator whatever it is, and the
\* conversion to its type is what may fail.
ScanFmt(line) ==
  LET start == ParseRadix(HexChars, line.start)
      end == IF IsSome(start) THEN ParseRadix(HexChars, line.end) ELSE None
      offset == IF IsSome(end) THEN ParseRadix(HexChars, line.offset) ELSE None
      rest == IsSome(offset)
  IN [start |-> start,
      end |-> end,
      permissions_string |-> IF IsSome(end) /\ Len(line.perms) > 0
                             THEN Some(line.perms) ELSE None,
      offset |-> offset,
      dev_major |-> IF rest THEN ParseU8(line.dev_major) ELSE None,
      dev_minor |-> IF rest THEN ParseU8(line.dev_minor) ELSE None,
      inode |-> IF rest THEN ParseRadix(DecChars, line.inode) ELSE None,
      path |-> IF rest THEN line.path ELSE None]

\* Permissions with the 's' arm of the match left out.
Permissions_NoShared(permissions_string) ==
  [readable |-> "r" \in Range(permissions_string),
   writeable |-> "w" \in Range(permissions_string),
   executable |-> "x" \in Range(permissions_string),
   shared |-> FALSE]

\* Permissions reading each letter at its own position only.
Permissions_Positional(permissions_string) ==
  LET at(i, c) == Len(permissions_string) >= i /\ permissions_string[i] = c
  IN [readable |-> at(1, "r"), writeable |-> at(2, "w"),
      executable |-> at(3, "x"), shared |-> at(4, "s")]

\* The for loop over permissions_string.chars().
Permissions(permissions_string) ==
  [readable |-> "r" \in Range(permissions_string),
   writeable |-> "w" \in Range(permissions_string),
   executable |-> "x" \in Range(permissions_string),
   shared |-> "s" \in Range(permissions_string)]

\* The body of the while loop for one line: the MemoryRegion pushed, or None when
\* an unwrap() meets a None and panics.
RegionOfLine(line) ==
  LET f == ScanFmt(line) IN
  IF /\ IsSome(f.permissions_string) /\ IsSome(f.start) /\ IsSome(f.end)
     /\ IsSome(f.offset) /\ IsSome(f.dev_major) /\ IsSome(f.dev_minor)
     /\ IsSome(f.inode)
  THEN Some([start |-> Unwrap(f.start),
             end |-> Unwrap(f.end),
             permissions |-> Permissions(Unwrap(f.permissions_string)),
             offset |-> Unwrap(f.offset),
             dev_major |-> Unwrap(f.dev_major),
             dev_minor |-> Unwrap(f.dev_minor),
             inode |-> Unwrap(f.inode),
             path |-> f.path])
  ELSE None

\* The maps lines of the model.

Chars(a, b, c, d) == <<a, b, c, d>>
BinCat == <<"/", "b", "i", "n", "/", "c", "a", "t">>
RootCat == <<"/", "c", "a", "t">>

MkLine(start, end, perms, minor, inode, path) ==
  [start |-> start, end |-> end, perms |-> perms, offset |-> <<"0">>,
   dev_major |-> <<"0", "3">>, dev_minor |-> minor, inode |-> inode, path |-> path]

\* 10-20 r-xp 0 03:12 5 /bin/cat
LineText == MkLine(<<"1", "0">>, <<"2", "0">>, Chars("r", "-", "x", "p"),
                   <<"1", "2">>, <<"5">>, Some(BinCat))
\* 20-30 rw-p 0 03:12 5 /bin/cat
LineData == MkLine(<<"2", "0">>, <<"3", "0">>, Chars("r", "w", "-", "p"),
                   <<"1", "2">>, <<"5">>, Some(BinCat))
\* 30-40 rw-p 0 03:00 0
LineAnon == MkLine(<<"3", "0">>, <<"4", "0">>, Chars("r", "w", "-", "p"),
                   <<"0", "0">>, <<"0">>, None)
\* 10-20 r--s 0 03:12 7 /cat
LineRoot == MkLine(<<"1", "0">>, <<"2", "0">>, Chars("r", "-", "-", "s"),
                   <<"1", "2">>, <<"7">>, Some(RootCat))
\* 1g-20 r-xp 0 03:12 5 /bin/cat
LineBad == MkLine(<<"1", "g">>, <<"2", "0">>, Chars("r", "-", "x", "p"),
                  <<"1", "2">>, <<"5">>, Some(BinCat))

Lines == {LineText, LineData, LineAnon, LineRoot, LineBad}
Texts == UNION {[1..n -> Lines] : n \in 0..MaxLines}

\* RegionOfLine over the lines of the model, evaluated once.
RegionOf == [l \in Lines |-> RegionOfLine(l)]

NoIoFailure == -1

\* ParseLoop putting each region in front of the ones before it.
RECURSIVE ParseLoop_Reversed(_, _, _, _)
ParseLoop_Reversed(text, ioAt, i, regions) ==
  IF ioAt = i THEN [kind |-> "Err", err |-> "Io", regions |-> regions, at |-> i]
  ELSE IF i > Len(text) THEN [kind |-> "Ok", err |-> "", regions |-> regions, at |-> i]
  ELSE LET region == RegionOf[text[i]] IN
       IF IsSome(region)
       THEN ParseLoop_Reversed(text, ioAt, i + 1, <<Unwrap(region)>> \o regions)
       ELSE [kind |-> "Panic", err |-> "unwrap", regions |-> regions, at |-> i]

\* The while loop from line i on, with the local memory_regions vector so far.
\* ioAt is the read that fails: 0 the open of the file, k the read_until that
\* would yield line k (Len(text)+1: the one that would report the end of the
\* file), NoIoFailure none.  The answer carries the local vector as it was when
\* the function returned or unwound, and the line it stopped at.
RECURSIVE ParseLoop(_, _, _, _)
ParseLoop(text, ioAt, i, regions) ==
  IF ioAt = i THEN [kind |-> "Err", err |-> "Io", regions |-> regions, at |-> i]
  ELSE IF i > Len(text) THEN [kind |-> "Ok", err |-> "", regions |-> regions, at |-> i]
  ELSE LET region == RegionOf[text[i]] IN
       IF IsSome(region)
       THEN ParseLoop(text, ioAt, i + 1, Append(regions, Unwrap(region)))
       ELSE [kind |-> "Panic", err |-> "unwrap", regions |-> regions, at |-> i]

\* fs::File::open(maps_path)? and the loop.
ParseText(text, ioAt) ==
  IF ioAt = 0 THEN [kind |-> "Err", err |-> "Io", regions |-> << >>, at |-> 0]
  ELSE ParseLoop(text, ioAt, 1, << >>)

\* Mutant of IndexAfter: the regions are pushed to the field as they are parsed.
IndexAfter_Partial(old, r) == Some(r.regions)

\* self.memory_regions once parse_maps has returned or unwound: the assignment
\* is the last statement before Ok(()).
IndexAfter(old, r) == IF r.kind = "Ok" THEN Some(r.regions) ELSE old

\* What the caller gets from parse_maps.
ParseOutcome(r) ==
  IF r.kind = "Ok" THEN Ok(<< >>)
  ELSE IF r.kind = "Err" THEN Err(r.err)
  ELSE Panic(r.err)

-----------------------------------------------------------------------------
(* History of parse_maps's input *)

\* The positional-field grammar of a maps line: hexadecimal start, end, offset
\* and device numbers, a decimal inode.
GrammarOk(line) ==
  /\ IsSome(ParseRadix(HexChars, line.start))
  /\ IsSome(ParseRadix(HexChars, line.end))
  /\ IsSome(ParseRadix(HexChars, line.offset))
  /\ IsSome(ParseRadix(HexChars, line.dev_major))
  /\ IsSome(ParseRadix(HexChars, line.dev_minor))
  /\ IsSome(ParseRadix(DecChars, line.inode))

BadLines == {l \in Lines : ~GrammarOk(l)}

\* The first line of the text that fails the grammar; 0 when none does.
FirstBad(text) ==
  IF \A i \in 1..Len(text) : text[i] \notin BadLines THEN 0
  ELSE CHOOSE i \in 1..Len(text) :
         text[i] \in BadLines /\ \A j \in 1..(i - 1) : text[j] \notin BadLines

ParseMaps(text, ioAt) ==
  LET r == ParseText(text, ioAt) IN
  /\ IsSome(handle)
  /\ memory_regions' = IndexAfter(memory_regions, r)
  /\ last' = [op |-> "parse_maps", result |-> ParseOutcome(r), lines |-> Len(text),
              ioAt |-> ioAt, firstBad |-> FirstBad(text), at |-> r.at,
              pushed |-> Len(r.regions),
              text |-> IF r.kind = "Ok" THEN text ELSE << >>]
  /\ lastGood' = IF r.kind = "Ok"
                 THEN Some([i \in 1..Len(text) |-> Unwrap(RegionOf[text[i]])])
                 ELSE lastGood
  /\ UNCHANGED <<procTable, handle, mem, mappedLen>>

-----------------------------------------------------------------------------
(* get_memory_regions, region_find_first_by_name, get_address_region *)

GetMemoryRegionsResult(index) ==
  IF IsSome(index) THEN Ok(Unwrap(index)) ELSE Err("NotMapped")

AnonymousName == <<"[", "a", "n", "o", "n", "y", "m", "o", "u", "s", "_",
                   "r", "e", "g", "i", "o", "n", "]">>

\* str::rfind('/'): the 0-based index of the last '/', None without one.
RFindSlash(str) ==
  IF "/" \in Range(str)
  THEN Some((CHOOSE i \in 1..Len(str) :
               str[i] = "/" /\ \A j \in (i + 1)..Len(str) : str[j] # "/") - 1)
  ELSE None

\* split_file_name of the loop body: the path, or the sentinel, split off at
\* index_to_split, plus one when index_to_split > 0.
SplitFileName(path) ==
  LET str == IF IsSome(path) THEN Unwrap(path) ELSE AnonymousName
      found == RFindSlash(str)
      index_to_split == IF IsSome(found) THEN Unwrap(found) ELSE 0
      from == index_to_split + (IF index_to_split > 0 THEN 1 ELSE 0)
  IN SubSeq(str, from + 1, Len(str))

\* SplitFileName over the paths of the model's lines, evaluated once.
Paths == {l.path : l \in Lines}
FileNameOf == [path \in Paths |-> SplitFileName(path)]

\* The for loop of region_find_first_by_name from region i on.
RECURSIVE FindDecide(_, _, _, _)
FindDecide(regions, region_name, permissions_eq, i) ==
  IF i > Len(regions) THEN Err("NotFound")
  ELSE IF FileNameOf[regions[i].path] = region_name
       THEN IF IsSome(permissions_eq)
            THEN IF Unwrap(permissions_eq) = regions[i].permissions
                 THEN Ok([at |-> i, region |-> regions[i]])
                 ELSE Err("PermissionMismatch")
            ELSE Ok([at |-> i, region |-> regions[i]])
       ELSE FindDecide(regions, region_name, permissions_eq, i + 1)

RegionFindResult(index, region_name, permissions_eq) ==
  IF ~IsSome(index) THEN Err("NotMapped")
  ELSE FindDecide(Unwrap(index), region_name, permissions_eq, 1)

\* Mutant of Contains: a half-open interval.
Contains_HalfOpen(region, address) == address >= region.start /\ address < region.end

\* address >= region.start && address <= region.end
Contains(region, address) == address >= region.start /\ address <= region.end

\* The for loop of get_address_region from region i on.
RECURSIVE AddressScan(_, _, _)
AddressScan(regions, address, i) ==
  IF i > Len(regions) THEN Err("NotFound")
  ELSE IF Contains(regions[i], address)
       THEN Ok([at |-> i, region |-> regions[i]])
       ELSE AddressScan(regions, address, i + 1)

\* Mutant of AddressRegionResult: an empty index is taken for no index.
AddressRegionResult_EmptyIsUnmapped(index, address) ==
  IF ~IsSome(index) \/ Unwrap(index) = << >> THEN Err("NotMapped")
  ELSE AddressScan(Unwrap(index), address, 1)

AddressRegionResult(index, address) ==
  IF ~IsSome(index) THEN Err("NotMapped")
  ELSE AddressScan(Unwrap(index), address, 1)

GetMemoryRegions ==
  /\ IsSome(handle)
  /\ last' = [op |-> "get_memory_regions", result |-> GetMemoryRegionsResult(memory_regions)]
  /\ UNCHANGED <<procTable, handle, memory_regions, mem, mappedLen, lastGood>>

RegionFindFirstByName(region_name, permissions_eq) ==
  /\ IsSome(handle)
  /\ last' = [op |-> "region_find_first_by_name", region_name |-> region_name,
              permissions_eq |-> permissions_eq,
              result |-> RegionFindResult(memory_regions, region_name, permissions_eq)]
  /\ UNCHANGED <<procTable, handle, memory_regions, mem, mappedLen, lastGood>>

\* GetAddressRegion dropping the index when no region holds the address.
GetAddressRegion_Forgets(address) ==
  LET result == AddressRegionResult(memory_regions, address) IN
  /\ IsSome(handle)
  /\ last' = [op |-> "get_address_region", address |-> address, result |-> result]
  /\ memory_regions' = IF result = Err("NotFound") THEN None ELSE memory_regions
  /\ UNCHANGED <<procTable, handle, mem, mappedLen, lastGood>>

GetAddressRegion(address) ==
  /\ IsSome(handle)
  /\ last' = [op |-> "get_address_region", address |-> address,
              result |-> AddressRegionResult(memory_regions, address)]
  /\ UNCHANGED <<procTable, handle, memory_regions, mem, mappedLen, lastGood>>

\* The arguments the model calls the queries with.
RegionNames == {<<"c", "a", "t">>, RootCat, AnonymousName}
PermR_X == [readable |-> TRUE, writeable |-> FALSE, executable |-> TRUE, shared |-> FALSE]
PermRW_ == [readable |-> TRUE, writeable |-> TRUE, executable |-> FALSE, shared |-> FALSE]
Filters == {None, Some(PermR_X), Some(PermRW_)}
\* 0x0f, 0x10, 0x20, 0x21, 0x30, 0x31
QueryAddresses == {15, 16, 32, 33, 48, 49}

InitMaps ==
  /\ procTable = << >>
  /\ handle = TheHandle
  /\ memory_regions = None
  /\ mem = << >>
  /\ mappedLen = 0
  /\ last = [op |-> "none"]
  /\ lastGood = None

NextMaps ==
  \/ \E text \in Texts : \E ioAt \in NoIoFailure..(Len(text) + 1) : ParseMaps(text, ioAt)
  \/ GetMemoryRegions
  \/ \E n \in RegionNames, f \in Filters : RegionFindFirstByName(n, f)
  \/ \E a \in QueryAddresses : GetAddressRegion(a)

SpecMaps == InitMaps /\ [][NextMaps]_vars

-----------------------------------------------------------------------------
(* One line through the body of parse_maps's loop *)

\* 08048000-08049000 r-xp 00000000 03:0c 64593 /bin/cat
LineExample ==
  [start |-> <<"0", "8", "0", "4", "8", "0", "0", "0">>,
   end |-> <<"0", "8", "0", "4", "9", "0", "0", "0">>,
   perms |-> Chars("r", "-", "x", "p"),
   offset |-> <<"0", "0", "0", "0", "0", "0", "0", "0">>,
   dev_major |-> <<"0", "3">>, dev_minor |-> <<"0", "c">>,
   inode |-> <<"6", "4", "5", "9", "3">>, path |-> Some(BinCat)]

PermChars == {"r", "w", "x", "s", "p", "-"}
PermFields == {Chars(a, b, c, d) : a \in PermChars, b \in PermChars,
                                   c \in PermChars, d \in PermChars}

DevDigits == {"0", "1", "3", "9", "a", "c", "f"}
DevFields == {<<a, b>> : a \in DevDigits, b \in DevDigits}

\* The lines drawn: every permission field on one line, every pair of device
\* fields on another.
LineInputs ==
  {[LineText EXCEPT !.perms = perms] : perms \in PermFields}
  \cup {[LineExample EXCEPT !.dev_major = major, !.dev_minor = minor] :
          major \in DevFields, minor \in DevFields}

\* One iteration of the while loop on the line read: scan_fmt_some!, the
\* permissions loop and the MemoryRegion it would push (None: an unwrap() panics).
LoopBody ==
  /\ IsSome(handle)
  /\ last.op = "read_until"
  /\ last' = [op |-> "loop_body", line |-> last.line, region |-> RegionOfLine(last.line)]
  /\ UNCHANGED <<procTable, handle, memory_regions, mem, mappedLen, lastGood>>

InitLine ==
  /\ procTable = << >>
  /\ handle = TheHandle
  /\ memory_regions = None
  /\ mem = [a \in Addrs |-> 0]
  /\ mappedLen = MemSize
  /\ last \in {[op |-> "read_until", line |-> line] : line \in LineInputs}
  /\ lastGood = None

NextLine == LoopBody

SpecLine == InitLine /\ [][NextLine]_vars

-----------------------------------------------------------------------------
(* Every operation on one handle *)

GetPid ==
  /\ IsSome(handle)
  /\ last' = [op |-> "get_pid", result |-> Unwrap(handle).pid]
  /\ UNCHANGED <<procTable, handle, memory_regions, mem, mappedLen, lastGood>>

GetName ==
  /\ IsSome(handle)
  /\ last' = [op |-> "get_name", result |-> Unwrap(handle).name]
  /\ UNCHANGED <<procTable, handle, memory_regions, mem, mappedLen, lastGood>>

\* The arguments the operations are called with here: maps files that parse to
\* zero, one and two regions and one that does not parse; a name and a filter;
\* an address inside and one outside the regions; transfers inside the target's
\* memory and past its end.
HandleTexts == {<< >>, <<LineText>>, <<LineText, LineAnon>>, <<LineText, LineBad>>}
HandleFilters == {None, Some(PermRW_)}
HandleAddresses == {16, 80}
HandleBuffers == {<<255>>, <<255, 255>>}

InitHandle ==
  /\ procTable = << >>
  /\ handle = TheHandle
  /\ memory_regions = None
  /\ mem = [a \in Addrs |-> 0]
  /\ mappedLen = MemSize
  /\ last = [op |-> "none"]
  /\ lastGood = None

NextHandle ==
  \/ GetPid
  \/ GetName
  \/ \E text \in HandleTexts, ioAt \in {NoIoFailure, 0} : ParseMaps(text, ioAt)
  \/ GetMemoryRegions
  \/ \E f \in HandleFilters : RegionFindFirstByName(<<"c", "a", "t">>, f)
  \/ \E a \in HandleAddresses : GetAddressRegion(a)
  \/ \E a \in 0..MemSize, t \in 1..2 : ReadMemory(a, t)
  \/ \E a \in 0..MemSize, b \in HandleBuffers : WriteMemory(a, Len(b), b)

SpecHandle == InitHandle /\ [][NextHandle]_vars

-----------------------------------------------------------------------------
(* Claims about read_memory / write_memory, checked under SpecMem *)

SysCount(l) == IF l.sys.kind = "Ok" THEN Unwrap(l.sys.val) ELSE -1

\* C5: read_memory::<T> issues exactly one transfer, for size_of::<T>() bytes at
\* the address; it returns a buffer exactly when the kernel reports that many
\* bytes, and the buffer then holds exactly those bytes of the target; a lesser
\* count yields the partial-read error and no buffer.
C5_ReadExactOrError ==
  last.op = "read_memory" =>
    /\ Len(last.requests) = 1
    /\ last.requests[1] = [base |-> last.address, len |-> last.size, localLen |-> last.size]
    /\ (last.result.kind = "Ok") <=> (SysCount(last) = last.size)
    /\ last.result.kind = "Ok" =>
         /\ Len(Unwrap(last.result.val)) = last.size
         /\ \A i \in 1..last.size :
              Unwrap(last.result.val)[i] = mem[last.address + i - 1]
    /\ (SysCount(last) >= 0 /\ SysCount(last) < last.size) =>
         /\ last.result.kind = "Err"
         /\ last.result.err = "PartialRead"
         /\ last.result.val = None

\* A read that straddles the end of the mapped memory: some bytes, not all.
C5_Witness ==
  /\ last.op = "read_memory"
  /\ SysCount(last) > 0
  /\ SysCount(last) < last.size
  /\ last.result.err = "PartialRead"

\* C6, as claimed: write_memory asks for as many bytes as the buffer is long and
\* succeeds exactly when the kernel reports that many bytes written, so that a
\* successful write has stored every byte of the buffer.
C6_WriteSizedByBuffer ==
  last.op = "write_memory" =>
    /\ last.requests[1].len = last.bufLen
    /\ (last.result.kind = "Ok") <=> (SysCount(last) = last.bufLen)
    /\ last.result.kind = "Ok" => Len(last.written) = last.bufLen
    /\ (SysCount(last) >= 0 /\ SysCount(last) < last.bufLen) =>
         last.result.err = "PartialWrite"

\* C7: a read_memory::<T> that directly follows a successful write_memory::<T>
\* at the same address (nothing else stored to the target in between) returns
\* exactly the size_of::<T>() bytes the write stored.
C7_RoundTrip ==
  (/\ last.op = "read_memory"
   /\ last.after.op = "write_memory_ok"
   /\ last.after.address = last.address
   /\ last.after.size = last.size) =>
     /\ last.result = Ok(last.after.written)
     /\ Len(last.after.written) = last.size

\* A non-zero value written and read back.
C7_Witness ==
  /\ last.op = "read_memory"
  /\ last.after.op = "write_memory_ok"
  /\ last.after.address = last.address
  /\ last.after.size = last.size
  /\ last.size = MaxSize
  /\ last.result.kind = "Ok"
  /\ \A i \in 1..last.size : Unwrap(last.result.val)[i] = 255

-----------------------------------------------------------------------------
(* Claims about Process::new, checked under SpecLocate *)

\* Entry i of the table is numerically named and its short name, trimmed of
\* trailing whitespace, is process_name.
Matches(table, i, process_name) ==
  /\ ~table[i].direrr
  /\ ParseRadix(DecChars, table[i].fname) # None
  /\ IsSome(table[i].comm)
  /\ trim_end(Unwrap(table[i].comm)) = process_name

MatchSet(table, process_name) ==
  {i \in 1..Len(table) : Matches(table, i, process_name)}

FirstMatch(table, process_name) ==
  CHOOSE i \in MatchSet(table, process_name) :
    \A j \in MatchSet(table, process_name) : i <= j

\* The result names entry i of the table.
Returns(r, table, i) ==
  /\ r.kind = "Ok"
  /\ Unwrap(r.val).at = i
  /\ Some(Unwrap(r.val).pid) = ParseRadix(DecChars, table[i].fname)

\* An entry whose short name cannot be read.
Unreadable(table, i) ==
  /\ ~table[i].direrr
  /\ ParseRadix(DecChars, table[i].fname) # None
  /\ ~IsSome(table[i].comm)

\* C3, as claimed: whenever /proc can be listed, Process::new(name) returns the
\* first numerically-named entry whose trimmed short name is name, and fails
\* with NotFound when there is none.
C3_FirstMatchOrNotFound ==
  (last.op = "new" /\ last.dirOk) =>
    IF MatchSet(procTable, last.process_name) = {}
    THEN last.result = Err("NotFound")
    ELSE Returns(last.result, procTable, FirstMatch(procTable, last.process_name))

\* C4, as claimed: an entry whose short name cannot be read is skipped; a
\* matching entry after it is returned, and with no match the result is
\* NotFound, not an I/O failure.
C4_UnreadableSkipped ==
  (/\ last.op = "new"
   /\ last.dirOk
   /\ \E i \in 1..Len(procTable) : Unreadable(procTable, i)) =>
    /\ last.result.err # "Io"
    /\ \A i \in 1..Len(procTable) :
         (/\ Unreadable(procTable, i)
          /\ MatchSet(procTable, last.process_name) # {}
          /\ i < FirstMatch(procTable, last.process_name)) =>
           Returns(last.result, procTable, FirstMatch(procTable, last.process_name))
    /\ MatchSet(procTable, last.process_name) = {} => last.result = Err("NotFound")

-----------------------------------------------------------------------------
(* Claims about parse_maps and the queries, checked under SpecMaps *)

Queries == {"get_memory_regions", "region_find_first_by_name", "get_address_region"}

\* C1: after any sequence of parse_maps calls, each succeeding or failing, the
\* region index is the full result of the most recent successful parse (one
\* region per line of that text), and absent when none has succeeded: a failed
\* parse, whatever it had pushed to its local vector, leaves the index as it was.
C1_IndexIsLastGoodParse ==
  /\ memory_regions = lastGood
  /\ (last.op = "parse_maps" /\ last.result.kind = "Ok") =>
       (IsSome(memory_regions) /\ Len(Unwrap(memory_regions)) = last.lines)

\* A parse fails after pushing a region, over a longer index of an earlier parse.
C1_Witness ==
  /\ last.op = "parse_maps"
  /\ last.result.kind # "Ok"
  /\ last.pushed > 0
  /\ IsSome(memory_regions)
  /\ Len(Unwrap(memory_regions)) > last.pushed

\* C2, as claimed: when a line fails the positional-field grammar (and every
\* read up to it succeeds), parse_maps returns a ParseError to its caller.
C2_MalformedLineIsParseError ==
  (/\ last.op = "parse_maps"
   /\ last.firstBad > 0
   /\ (last.ioAt = NoIoFailure \/ last.ioAt > last.firstBad)) =>
    (last.result.kind = "Err" /\ last.result.err = "Parse")

\* The basename of the claims: the text after the final '/', the whole path
\* without one, the sentinel for an absent path.
Basename(path) ==
  IF ~IsSome(path) THEN AnonymousName
  ELSE LET str == Unwrap(path)
           cut == IF "/" \in Range(str)
                  THEN CHOOSE i \in 1..Len(str) :
                         str[i] = "/" /\ \A j \in (i + 1)..Len(str) : str[j] # "/"
                  ELSE 0
       IN SubSeq(str, cut + 1, Len(str))

Least(S) == CHOOSE i \in S : \A j \in S : i <= j

\* C8, as claimed: region_find_first_by_name decides on the first region whose
\* basename is the name: NotFound without one; that region when there is no
\* filter or its permissions equal the filter; PermissionMismatch otherwise.
C8_FirstByBasename ==
  (last.op = "region_find_first_by_name" /\ IsSome(memory_regions)) =>
    LET regions == Unwrap(memory_regions)
        named == {i \in 1..Len(regions) : Basename(regions[i].path) = last.region_name}
    IN IF named = {} THEN last.result = Err("NotFound")
       ELSE IF \/ ~IsSome(last.permissions_eq)
               \/ Unwrap(last.permissions_eq) = regions[Least(named)].permissions
       THEN last.result = Ok([at |-> Least(named), region |-> regions[Least(named)]])
       ELSE last.result = Err("PermissionMismatch")

\* C9: get_address_region returns the first region, in index order, with
\* start <= address <= end (the end included), and NotFound without one.
C9_FirstContaining ==
  (last.op = "get_address_region" /\ IsSome(memory_regions)) =>
    LET regions == Unwrap(memory_regions)
        holding == {i \in 1..Len(regions) :
                      regions[i].start <= last.address /\ last.address <= regions[i].end}
    IN IF holding = {} THEN last.result = Err("NotFound")
       ELSE last.result = Ok([at |-> Least(holding), region |-> regions[Least(holding)]])

\* The address is the end of the first region and the start of the second: the
\* first is returned.
C9_Witness ==
  /\ last.op = "get_address_region"
  /\ IsSome(memory_regions)
  /\ Len(Unwrap(memory_regions)) = 2
  /\ last.address = Unwrap(memory_regions)[1].end
  /\ last.address = Unwrap(memory_regions)[2].start
  /\ last.result.kind = "Ok"
  /\ Unwrap(last.result.val).at = 1

\* C10: the index is present exactly when a parse has succeeded on the handle,
\* a step never takes it from present to absent, and each of the three queries
\* fails with the not-mapped error exactly when no parse has succeeded.
C10_MappedOnceParsed ==
  /\ [](IsSome(memory_regions) <=> IsSome(lastGood))
  /\ [](last.op \in Queries => (last.result = Err("NotMapped") <=> ~IsSome(lastGood)))
  /\ [][IsSome(memory_regions) => IsSome(memory_regions')]_vars

\* A query of an index parsed from zero lines, failing otherwise than by NotMapped.
C10_Witness ==
  /\ last.op = "get_address_region"
  /\ memory_regions = Some(<< >>)
  /\ last.result = Err("NotFound")

-----------------------------------------------------------------------------
(* Claims about one maps line, checked under SpecLine *)

HexVal(tok) == Unwrap(ParseRadix(HexChars, tok))
DecVal(tok) == Unwrap(ParseRadix(DecChars, tok))

\* C11: the two device fields are read as hexadecimal: a line whose device
\* fields are two hexadecimal digits each (03:0c among them) parses, and the
\* region carries the hexadecimal value of each (3 and 12 for 03:0c), next to
\* the hexadecimal start, end and offset, the decimal inode and the path.
C11_DeviceFieldsHex ==
  (/\ last.op = "loop_body"
   /\ last.line.dev_major \in DevFields
   /\ last.line.dev_minor \in DevFields) =>
    /\ IsSome(last.region)
    /\ Unwrap(last.region).dev_major = HexVal(last.line.dev_major)
    /\ Unwrap(last.region).dev_minor = HexVal(last.line.dev_minor)
    /\ Unwrap(last.region).start = HexVal(last.line.start)
    /\ Unwrap(last.region).end = HexVal(last.line.end)
    /\ Unwrap(last.region).offset = HexVal(last.line.offset)
    /\ Unwrap(last.region).inode = DecVal(last.line.inode)
    /\ Unwrap(last.region).path = last.line.path

\* The permission field of a set of letters: each letter at its own position,
\* '-' for an absent one, absent being either '-' or 'p' at the last position.
Letters == {"r", "w", "x", "s"}
Render(S, absent) ==
  Chars(IF "r" \in S THEN "r" ELSE "-", IF "w" \in S THEN "w" ELSE "-",
        IF "x" \in S THEN "x" ELSE "-", IF "s" \in S THEN "s" ELSE absent)

\* C12: for every subset of {r, w, x, s} rendered in the fixed order, a line
\* with that field (and device fields the code reads) yields a region, and
\* the four booleans of a region are true exactly for the letters of the subset.
C12_RenderedSubset ==
  last.op = "loop_body" =>
    \A S \in SUBSET Letters, absent \in {"p", "-"} :
      /\ last.line = [LineText EXCEPT !.perms = Render(S, absent)] => IsSome(last.region)
      /\ (last.line.perms = Render(S, absent) /\ IsSome(last.region)) =>
           Unwrap(last.region).permissions =
             [readable |-> "r" \in S, writeable |-> "w" \in S,
              executable |-> "x" \in S, shared |-> "s" \in S]

\* -w-s: a shared, write-only region.
C12_Witness ==
  /\ last.op = "loop_body"
  /\ last.line.perms = Render({"w", "s"}, "p")
  /\ IsSome(last.region)
  /\ Unwrap(last.region).permissions.shared
  /\ ~Unwrap(last.region).permissions.readable

\* C13, as stated: each boolean is read at its own position only: readable is
\* true exactly when the first character is 'r', writeable the second 'w',
\* executable the third 'x', shared the fourth 's'.
C13_Positional ==
  (last.op = "loop_body" /\ IsSome(last.region)) =>
    LET perms == last.line.perms
        p == Unwrap(last.region).permissions
    IN /\ p.readable <=> perms[1] = "r"
       /\ p.writeable <=> perms[2] = "w"
       /\ p.executable <=> perms[3] = "x"
       /\ p.shared <=> perms[4] = "s"

\* C13, amended: each boolean is true exactly when its letter occurs at some
\* position of the field, its own or another; no other character sets one.
C13_ByLetter ==
  last.op = "loop_body" =>
    /\ (\E f \in PermFields : last.line = [LineText EXCEPT !.perms = f]) => IsSome(last.region)
    /\ IsSome(last.region) =>
         LET perms == last.line.perms
             p == Unwrap(last.region).permissions
         IN /\ p.readable <=> \E i \in 1..4 : perms[i] = "r"
            /\ p.writeable <=> \E i \in 1..4 : perms[i] = "w"
            /\ p.executable <=> \E i \in 1..4 : perms[i] = "x"
            /\ p.shared <=> \E i \in 1..4 : perms[i] = "s"

\* xr--: both letters away from their positions, both booleans set.
C13_Witness ==
  /\ last.op = "loop_body"
  /\ last.line.perms = Chars("x", "r", "-", "-")
  /\ IsSome(last.region)
  /\ Unwrap(last.region).permissions =
       [readable |-> TRUE, writeable |-> FALSE, executable |-> TRUE, shared |-> FALSE]

-----------------------------------------------------------------------------
(* Claims about the region index as a whole, checked under SpecMaps *)

\* C14: the name region_find_first_by_name compares with is, for every region
\* of the index it scans, the text after the final '/' of the path (cat for
\* /cat, the whole path when it has no '/'), and [anonymous_region] when the
\* region has no path.
C14_NameIsBasename ==
  (last.op = "region_find_first_by_name" /\ IsSome(memory_regions)) =>
    \A i \in 1..Len(Unwrap(memory_regions)) :
      FileNameOf[Unwrap(memory_regions)[i].path] = Basename(Unwrap(memory_regions)[i].path)

\* C15: a parse that succeeds on a text of N lines leaves an index of exactly
\* N regions, the i-th read from the i-th line (its addresses, offset, inode
\* and path), with no path exactly for the lines that carry none.
C15_OneRegionPerLine ==
  (last.op = "parse_maps" /\ last.result.kind = "Ok") =>
    /\ IsSome(memory_regions)
    /\ Len(last.text) = last.lines
    /\ Len(Unwrap(memory_regions)) = last.lines
    /\ \A i \in 1..last.lines :
         LET region == Unwrap(memory_regions)[i]
             line == last.text[i]
         IN /\ region.start = HexVal(line.start)
            /\ region.end = HexVal(line.end)
            /\ region.offset = HexVal(line.offset)
            /\ region.inode = DecVal(line.inode)
            /\ region.path = line.path
            /\ IsSome(region.path) <=> IsSome(line.path)

\* Two different lines, the first with a path and the second without.
C15_Witness ==
  /\ last.op = "parse_maps"
  /\ last.result.kind = "Ok"
  /\ last.text = <<LineText, LineAnon>>
  /\ Len(Unwrap(memory_regions)) = 2
  /\ IsSome(Unwrap(memory_regions)[1].path)
  /\ ~IsSome(Unwrap(memory_regions)[2].path)

-----------------------------------------------------------------------------
(* Claims about every operation on one handle, checked under SpecHandle *)

\* C16: across any sequence of operations on a handle its pid and name stay
\* what construction made them; read_memory, write_memory and the three
\* queries leave the region index as it was, whether they succeed or fail;
\* a step that changes the index is a parse_maps.
C16_Frame ==
  [][/\ handle' = handle
     /\ last'.op \in {"get_pid", "get_name"} => memory_regions' = memory_regions
     /\ last'.op \in {"read_memory", "write_memory"} \cup Queries =>
          memory_regions' = memory_regions
     /\ memory_regions' # memory_regions => last'.op = "parse_maps"
     /\ last'.op = "get_pid" => last'.result = Unwrap(TheHandle).pid
     /\ last'.op = "get_name" => last'.result = Unwrap(TheHandle).name]_vars

\* A query that fails on an index of two regions, which is still there.
C16_Witness ==
  /\ last.op = "get_address_region"
  /\ last.result = Err("NotFound")
  /\ IsSome(memory_regions)
  /\ Len(Unwrap(memory_regions)) = 2
  /\ handle = TheHandle

====
